---- MODULE Spec2Model ----
(***************************************************************************)
(* The clc expression evaluator: the tokenizer of src/src/parsing.rs and   *)
(* the Context, shunting_yard, evaluate_queue and evaluate of              *)
(* src/src/lib.rs.                                                         *)
(*                                                                         *)
(* A string is a sequence of characters; a character is a TLA+ string.     *)
(* Rust indexes a str by BYTES, so every character carries its UTF-8       *)
(* length and every slice is checked against the character boundaries.    *)
(* An f64 is a term built from the literals and the operations applied to  *)
(* them: two evaluations that build the same term compute the same f64.    *)
(***************************************************************************)
EXTENDS Integers, Sequences, FiniteSets, TLC

VARIABLES
    context,     \* the Context the host owns: variables, operators, functions
    expression,  \* Tokens.expression, the text being tokenized or evaluated
    pos,         \* Tokens.pos, a byte offset into expression
    error,       \* Tokens.error
    ret,         \* what the last call of Tokens::next returned
    items,       \* the items Tokens::next has yielded so far, in order
    tokens,      \* shunting_yard's argument `tokens`
    ti,          \* index of the token shunting_yard's for loop handles next
    queue,       \* shunting_yard's `queue`, then evaluate_queue's argument
    stack,       \* shunting_yard's operator `stack` (top is the last element)
    qi,          \* index of the token evaluate_queue's for loop handles next
    vstack,      \* evaluate_queue's value `stack` (top is the last element)
    call,        \* the public operation the host called
    pc,          \* where that call stands
    outcome,     \* how the call ended: a value, a queue, or a panic
    hist         \* the previous call's outcome and the Context it started from

vars == <<context, expression, pos, error, ret, items, tokens, ti, queue,
          stack, qi, vstack, call, pc, outcome, hist>>

(***************************************************************************)
(* Characters and strings                                                  *)
(***************************************************************************)
\* Two characters whose UTF-8 encoding is longer than one byte.
EAcute == "U+00E9"
Euro == "U+20AC"

\* str::len and the str index operators count bytes.
Utf8Len(c) == CASE c = EAcute -> 2 [] c = Euro -> 3 [] OTHER -> 1

RECURSIVE ByteLen(_)
ByteLen(s) == IF s = <<>> THEN 0 ELSE Utf8Len(Head(s)) + ByteLen(Tail(s))

IsCharBoundary(s, b) == \E k \in 0..Len(s) : ByteLen(SubSeq(s, 1, k)) = b

CharsBefore(s, b) == CHOOSE k \in 0..Len(s) : ByteLen(SubSeq(s, 1, k)) = b

\* &s[a..b]: panics unless a <= b and both are character boundaries of s.
Slice(s, a, b) ==
    IF a <= b /\ IsCharBoundary(s, a) /\ IsCharBoundary(s, b)
    THEN [ok |-> TRUE, str |-> SubSeq(s, CharsBefore(s, a) + 1, CharsBefore(s, b))]
    ELSE [ok |-> FALSE, str |-> <<>>]

is_whitespace(c) == c \in {"\t", "\n", " "}

is_digit(c) == c \in {"0", "1", "2", "3", "4", "5", "6", "7", "8", "9"}

is_letter(c) ==
    c \in {"a", "b", "c", "d", "e", "f", "g", "h", "i", "j", "k", "l", "m",
           "n", "o", "p", "q", "r", "s", "t", "u", "v", "w", "x", "y", "z"}

is_left_parenthesis(c) == c = "("

is_right_parenthesis(c) == c = ")"

(***************************************************************************)
(* Tokens                                                                  *)
(***************************************************************************)
Number(s) == [kind |-> "Number", text |-> s]
Identifier(s) == [kind |-> "Identifier", text |-> s]
Symbol(s) == [kind |-> "Symbol", text |-> s]
Whitespace(s) == [kind |-> "Whitespace", text |-> s]
LeftParenthesis == [kind |-> "LeftParenthesis", text |-> <<>>]
RightParenthesis == [kind |-> "RightParenthesis", text |-> <<>>]
\* lib.rs matches on this variant; parsing.rs neither declares nor produces it.
ArgumentSeparator == [kind |-> "ArgumentSeparator", text |-> <<>>]
NoToken == [kind |-> "None", text |-> <<>>]

TokenLen(t) ==
    IF t.kind \in {"LeftParenthesis", "RightParenthesis"} THEN 1 ELSE ByteLen(t.text)

\* The results of parse_token and the items of Tokens::next.
Ok(t) == [status |-> "Ok", token |-> t, msg |-> ""]
Err(m) == [status |-> "Err", token |-> NoToken, msg |-> m]
Panic(m) == [status |-> "Panic", token |-> NoToken, msg |-> m]
None == [status |-> "None", token |-> NoToken, msg |-> ""]

SliceError == "byte index is not a char boundary"

UnwrapNone == "called Option::unwrap() on a None value"

\* The for loop of parse_whitespace; i - 1 is `length`, counted in characters.
RECURSIVE WhitespaceLoop(_, _)
WhitespaceLoop(s, i) ==
    IF i > Len(s) \/ ~is_whitespace(s[i]) THEN i - 1 ELSE WhitespaceLoop(s, i + 1)

parse_whitespace(s) == Slice(s, 0, WhitespaceLoop(s, 1))

\* The for loop of parse_identifier.
RECURSIVE IdentifierLoop(_, _)
IdentifierLoop(s, i) ==
    IF i > Len(s) \/ ~is_letter(s[i]) THEN i - 1 ELSE IdentifierLoop(s, i + 1)

parse_identifier(s) == Slice(s, 0, IdentifierLoop(s, 1))

\* The for loop of parse_number; i - 1 is `length`, "" is a last_char of None.
RECURSIVE ParseNumberLoop(_, _, _, _)
ParseNumberLoop(s, i, has_decimals, last_char) ==
    IF i > Len(s)
    THEN [err |-> FALSE, length |-> i - 1, last_char |-> last_char]
    ELSE IF s[i] = "." /\ has_decimals
    THEN [err |-> TRUE, length |-> i - 1, last_char |-> last_char]
    ELSE IF s[i] = "." /\ ~has_decimals
    THEN ParseNumberLoop(s, i + 1, TRUE, s[i])
    ELSE IF ~is_digit(s[i])
    THEN [err |-> FALSE, length |-> i - 1, last_char |-> last_char]
    ELSE ParseNumberLoop(s, i + 1, has_decimals, s[i])

parse_number(s) ==
    LET r == ParseNumberLoop(s, 1, FALSE, "")
        sl == Slice(s, 0, r.length)
    IN  IF r.err THEN Err("Malformed number")
        ELSE IF r.last_char = "." THEN Err("Maldformed number")
        ELSE IF sl.ok THEN Ok(Number(sl.str)) ELSE Panic(SliceError)

\* The fallback branch of parse_token: Symbol(&expression[0..1]).
SymbolOfFirstByte(s) ==
    LET sl == Slice(s, 0, 1)
    IN  IF sl.ok THEN Ok(Symbol(sl.str)) ELSE Panic(SliceError)

parse_token(s) ==
    IF s = <<>> THEN Panic(UnwrapNone)
    ELSE LET current_char == Head(s) IN
        IF is_whitespace(current_char)
        THEN LET sl == parse_whitespace(s)
             IN  IF sl.ok THEN Ok(Whitespace(sl.str)) ELSE Panic(SliceError)
        ELSE IF is_digit(current_char) THEN parse_number(s)
        ELSE IF is_letter(current_char)
        THEN LET sl == parse_identifier(s)
             IN  IF sl.ok THEN Ok(Identifier(sl.str)) ELSE Panic(SliceError)
        ELSE IF is_left_parenthesis(current_char) THEN Ok(LeftParenthesis)
        ELSE IF is_right_parenthesis(current_char) THEN Ok(RightParenthesis)
        ELSE SymbolOfFirstByte(s)

\* Tokens::from: a new iterator over e, at its start.
TokensFromStale(e) == [pos |-> pos, error |-> error]

TokensFrom(e) == [pos |-> 0, error |-> FALSE]

\* What Tokens::next sets self.error to, given parse_token's result.
ErrorLatchNever(res) == FALSE

ErrorLatch(res) == res.status = "Err"

\* Tokens::next on the iterator (e, p, err): what it returns and the fields
\* it leaves. A panic unwinds out of next and leaves the fields as they were.
TokensNext(e, p, err) ==
    IF err \/ p >= ByteLen(e)
    THEN [ret |-> None, pos |-> p, error |-> err]
    ELSE LET sl == Slice(e, p, ByteLen(e))
             res == IF sl.ok THEN parse_token(sl.str) ELSE Panic(SliceError)
         IN  IF res.status = "Ok"
             THEN [ret |-> res, pos |-> p + TokenLen(res.token), error |-> err]
             ELSE IF res.status = "Err"
             THEN [ret |-> res, pos |-> p, error |-> ErrorLatch(res)]
             ELSE [ret |-> res, pos |-> p, error |-> err]

(***************************************************************************)
(* Context                                                                 *)
(***************************************************************************)
\* A HashMap: a function whose domain is the set of its keys.
EmptyMap == [k \in {} |-> 0]

Insert(m, k, v) == [x \in DOMAIN m \cup {k} |-> IF x = k THEN v ELSE m[x]]

Operator(symbol, precedence, associativity) ==
    [symbol |-> symbol, precedence |-> precedence, associativity |-> associativity]

\* Function::NativeFunction; `execute` names the closure.
NativeFunction(name, num_args, execute) ==
    [name |-> name, num_args |-> num_args, execute |-> execute]

ContextNew == [variables |-> EmptyMap, operators |-> EmptyMap, functions |-> EmptyMap]

set_variable(ctx, name, value) ==
    [ctx EXCEPT !.variables = Insert(ctx.variables, name, value)]

add_operator(ctx, symbol, precedence, associativity) ==
    [ctx EXCEPT !.operators =
        Insert(ctx.operators, symbol, Operator(symbol, precedence, associativity))]

add_function(ctx, function) ==
    [ctx EXCEPT !.functions = Insert(ctx.functions, function.name, function)]

function_exists(ctx, name) == name \in DOMAIN ctx.functions

ContextDefault ==
    LET c1 == add_operator(ContextNew, <<"+">>, 2, "Left")
        c2 == add_operator(c1, <<"-">>, 2, "Left")
        c3 == add_operator(c2, <<"*">>, 3, "Left")
        c4 == add_operator(c3, <<"/">>, 3, "Left")
        c5 == add_operator(c4, <<"^">>, 4, "Right")
        c6 == add_function(c5, NativeFunction(<<"m", "i", "n">>, 2, "min"))
    IN  add_function(c6, NativeFunction(<<"m", "a", "x">>, 2, "max"))

(***************************************************************************)
(* f64 values, as terms                                                    *)
(***************************************************************************)
\* num.parse::<f64>() of a literal's text.
Lit(text) == <<"parse", text>>

\* A value the host passed to set_variable.
F64(k) == <<"f64", k>>

\* left OP right, for the five operators evaluate_queue computes.
BinOp(symbol, left, right) == <<symbol, left, right>>

\* execute(&args) of a native function; args in the order the closure reads.
Call(execute, args) == <<"call", execute, args>>

\* Whether str::parse::<f64> accepts a text made of digits and dots: at least
\* one digit and at most one dot.
ParsesAsF64(text) ==
    /\ \A i \in 1..Len(text) : is_digit(text[i]) \/ text[i] = "."
    /\ \E i \in 1..Len(text) : is_digit(text[i])
    /\ Cardinality({i \in 1..Len(text) : text[i] = "."}) <= 1

(***************************************************************************)
(* shunting_yard                                                           *)
(***************************************************************************)
Last(s) == s[Len(s)]

Front(s) == SubSeq(s, 1, Len(s) - 1)

RECURSIVE Reverse(_)
Reverse(s) == IF s = <<>> THEN <<>> ELSE Append(Reverse(Tail(s)), Head(s))

\* The condition under which move_operators pops the operator `other` that
\* is on top of the stack when `operator` comes in.
ShouldPopIgnoringAssociativity(other, operator) ==
    other.precedence >= operator.precedence

ShouldPop(other, operator) ==
    \/ other.precedence > operator.precedence
    \/ (other.precedence = operator.precedence /\ operator.associativity = "Left")

RECURSIVE move_operators(_, _, _, _)
move_operators(operator, st, q, ctx) ==
    IF /\ st # <<>>
       /\ Last(st).kind = "Symbol"
       /\ Last(st).text \in DOMAIN ctx.operators
       /\ ShouldPop(ctx.operators[Last(st).text], operator)
    THEN move_operators(operator, Front(st), Append(q, Last(st)), ctx)
    ELSE [stack |-> st, queue |-> q, panic |-> ""]

\* After the LeftParenthesis is popped: an Identifier on top of the stack
\* moves to the queue.
AfterLeftParenthesisDropIdentifier(st, q) ==
    IF st # <<>> /\ Last(st).kind = "Identifier"
    THEN [stack |-> Front(st), queue |-> q, panic |-> ""]
    ELSE [stack |-> st, queue |-> q, panic |-> ""]

AfterLeftParenthesis(st, q) ==
    IF st # <<>> /\ Last(st).kind = "Identifier"
    THEN [stack |-> Front(st), queue |-> Append(q, Last(st)), panic |-> ""]
    ELSE [stack |-> st, queue |-> q, panic |-> ""]

\* The RightParenthesis arm. The loop runs while stack.last() is Some, so the
\* stack.pop() of its second branch is always Some and the panic of its third
\* branch is never reached: an empty stack ends the loop and the arm.
RECURSIVE RightParenthesisLoop(_, _)
RightParenthesisLoop(st, q) ==
    IF st = <<>> THEN [stack |-> st, queue |-> q, panic |-> ""]
    ELSE IF Last(st).kind = "LeftParenthesis" THEN AfterLeftParenthesis(Front(st), q)
    ELSE RightParenthesisLoop(Front(st), Append(q, Last(st)))

\* The ArgumentSeparator arm.
RECURSIVE ArgumentSeparatorLoop(_, _)
ArgumentSeparatorLoop(st, q) ==
    IF st = <<>> THEN [stack |-> st, queue |-> q, panic |-> "Stack is empty"]
    ELSE IF Last(st).kind = "LeftParenthesis"
    THEN [stack |-> st, queue |-> q, panic |-> ""]
    ELSE ArgumentSeparatorLoop(Front(st), Append(q, Last(st)))

\* One iteration of shunting_yard's for loop: the match on `token`.
ShuntingYardToken(token, st, q, ctx) ==
    CASE token.kind = "Number" -> [stack |-> st, queue |-> Append(q, token), panic |-> ""]
      [] token.kind = "Identifier" ->
            IF function_exists(ctx, token.text)
            THEN [stack |-> Append(st, token), queue |-> q, panic |-> ""]
            ELSE [stack |-> st, queue |-> Append(q, token), panic |-> ""]
      [] token.kind = "Symbol" ->
            IF token.text \in DOMAIN ctx.operators
            THEN LET m == move_operators(ctx.operators[token.text], st, q, ctx)
                 IN  [stack |-> Append(m.stack, token), queue |-> m.queue, panic |-> ""]
            ELSE [stack |-> st, queue |-> q, panic |-> "Unknown operator"]
      [] token.kind = "Whitespace" -> [stack |-> st, queue |-> q, panic |-> ""]
      [] token.kind = "LeftParenthesis" ->
            [stack |-> Append(st, token), queue |-> q, panic |-> ""]
      [] token.kind = "RightParenthesis" -> RightParenthesisLoop(st, q)
      [] token.kind = "ArgumentSeparator" -> ArgumentSeparatorLoop(st, q)

\* The while loop after the for loop: the stack moves to the queue, top first.
Drain(st, q) == q \o Reverse(st)

(***************************************************************************)
(* evaluate_queue                                                          *)
(***************************************************************************)
ArithmeticSymbols == {<<"+">>, <<"-">>, <<"*">>, <<"/">>, <<"^">>}

\* The operands of a binary operator, from the two pops: the first is `right`.
Operands(vs) == [right |-> Last(vs), left |-> vs[Len(vs) - 1]]

\* Function::apply: num_args pops, reversed, then execute.
Args(vs, n) == SubSeq(vs, Len(vs) - n + 1, Len(vs))

apply(function, vs) ==
    IF Len(vs) < function.num_args
    THEN [stack |-> <<>>, panic |-> "Not enough arguments left on stack"]
    ELSE [stack |-> Append(SubSeq(vs, 1, Len(vs) - function.num_args),
                           Call(function.execute, Args(vs, function.num_args))),
          panic |-> ""]

\* One iteration of evaluate_queue's for loop: the match on `token`.
EvaluateQueueToken(token, vs, ctx) ==
    CASE token.kind = "Number" ->
            IF ParsesAsF64(token.text)
            THEN [stack |-> Append(vs, Lit(token.text)), panic |-> ""]
            ELSE [stack |-> vs, panic |-> "ParseFloatError"]
      [] token.kind = "Symbol" /\ token.text \in ArithmeticSymbols ->
            IF Len(vs) < 2
            THEN [stack |-> <<>>, panic |-> UnwrapNone]
            ELSE [stack |-> Append(SubSeq(vs, 1, Len(vs) - 2),
                                   BinOp(token.text[1], Operands(vs).left,
                                         Operands(vs).right)),
                  panic |-> ""]
      [] token.kind = "Identifier" ->
            IF token.text \in DOMAIN ctx.variables
            THEN [stack |-> Append(vs, ctx.variables[token.text]), panic |-> ""]
            ELSE IF token.text \in DOMAIN ctx.functions
            THEN apply(ctx.functions[token.text], vs)
            ELSE [stack |-> vs, panic |-> "Variable does not exist"]
      [] OTHER -> [stack |-> vs, panic |-> ""]

(***************************************************************************)
(* The calls                                                               *)
(***************************************************************************)
Pending == [status |-> "pending", value |-> <<>>, msg |-> "", site |-> ""]

Value(v) == [status |-> "value", value |-> v, msg |-> "", site |-> ""]

Returned == [status |-> "returned", value |-> <<>>, msg |-> "", site |-> ""]

Panicked(m, site) == [status |-> "panic", value |-> <<>>, msg |-> m, site |-> site]

\* What the host remembers across calls: how many calls of evaluate it made, the
\* outcome of the call before this one, whether it changed the Context between
\* that call and this one (mutated) or since this one ended (dirty), and the
\* Context as it last set it.
History(calls, prev, mutated, dirty, ctx) ==
    [calls |-> calls, prev |-> prev, mutated |-> mutated, dirty |-> dirty, set |-> ctx]

NoHistory == History(1, Pending, FALSE, FALSE, ContextNew)

\* The locals of shunting_yard and evaluate_queue before the call reaches them.
NoLocals ==
    /\ tokens = <<>> /\ ti = 1 /\ queue = <<>> /\ stack = <<>>
    /\ qi = 1 /\ vstack = <<>>

\* next() called by the host on a Tokens it holds.
Next_ ==
    /\ call = "tokenize" /\ pc = "iterating"
    /\ LET r == TokensNext(expression, pos, error) IN
        /\ pos' = r.pos
        /\ error' = r.error
        /\ ret' = r.ret
        /\ items' = IF r.ret.status \in {"Ok", "Err"} THEN Append(items, r.ret) ELSE items
    /\ UNCHANGED <<context, expression, tokens, ti, queue, stack, qi, vstack,
                   call, pc, outcome, hist>>

\* evaluate, line 263: one next() of tokenize(expression).try_collect(), and
\* the unwrap() once the collection has ended.
TryCollect ==
    /\ call = "evaluate" /\ pc = "try_collect"
    /\ LET r == TokensNext(expression, pos, error) IN
        /\ pos' = r.pos
        /\ error' = r.error
        /\ ret' = r.ret
        /\ items' = IF r.ret.status \in {"Ok", "Err"} THEN Append(items, r.ret) ELSE items
        /\ CASE r.ret.status = "Ok" ->
                    UNCHANGED <<tokens, ti, queue, stack, pc, outcome>>
             [] r.ret.status = "Err" ->
                    /\ pc' = "done"
                    /\ outcome' = Panicked(r.ret.msg, "try_collect().unwrap()")
                    /\ UNCHANGED <<tokens, ti, queue, stack>>
             [] r.ret.status = "Panic" ->
                    /\ pc' = "done"
                    /\ outcome' = Panicked(r.ret.msg, "parse_token")
                    /\ UNCHANGED <<tokens, ti, queue, stack>>
             [] r.ret.status = "None" ->
                    /\ tokens' = [i \in 1..Len(items) |-> items[i].token]
                    /\ ti' = 1 /\ queue' = <<>> /\ stack' = <<>>
                    /\ pc' = "shunting_yard"
                    /\ UNCHANGED outcome
    /\ UNCHANGED <<context, expression, qi, vstack, call, hist>>

\* shunting_yard: one iteration of the for loop.
ShuntingYardStep ==
    /\ pc = "shunting_yard" /\ ti <= Len(tokens)
    /\ LET r == ShuntingYardToken(tokens[ti], stack, queue, context) IN
        /\ stack' = r.stack
        /\ queue' = r.queue
        /\ IF r.panic # ""
           THEN /\ pc' = "done"
                /\ outcome' = Panicked(r.panic, "shunting_yard")
                /\ UNCHANGED ti
           ELSE /\ ti' = ti + 1
                /\ UNCHANGED <<pc, outcome>>
    /\ UNCHANGED <<context, expression, pos, error, ret, items, tokens, qi,
                   vstack, call, hist>>

\* shunting_yard: the final while loop and the return of the queue, to the
\* host or to evaluate (line 265), which passes it to evaluate_queue.
ShuntingYardReturn ==
    /\ pc = "shunting_yard" /\ ti > Len(tokens)
    /\ queue' = Drain(stack, queue)
    /\ stack' = <<>>
    /\ IF call = "evaluate"
       THEN /\ pc' = "evaluate_queue"
            /\ qi' = 1 /\ vstack' = <<>>
            /\ UNCHANGED outcome
       ELSE /\ pc' = "done"
            /\ outcome' = Returned
            /\ UNCHANGED <<qi, vstack>>
    /\ UNCHANGED <<context, expression, pos, error, ret, items, tokens, ti,
                   call, hist>>

\* evaluate_queue: one iteration of the for loop.
EvaluateQueueStep ==
    /\ pc = "evaluate_queue" /\ qi <= Len(queue)
    /\ LET r == EvaluateQueueToken(queue[qi], vstack, context) IN
        /\ vstack' = r.stack
        /\ IF r.panic # ""
           THEN /\ pc' = "done"
                /\ outcome' = Panicked(r.panic, "evaluate_queue for")
                /\ UNCHANGED qi
           ELSE /\ qi' = qi + 1
                /\ UNCHANGED <<pc, outcome>>
    /\ UNCHANGED <<context, expression, pos, error, ret, items, tokens, ti,
                   queue, stack, call, hist>>

\* evaluate_queue, line 259: stack.pop().unwrap()
EvaluateQueueReturn ==
    /\ pc = "evaluate_queue" /\ qi > Len(queue)
    /\ pc' = "done"
    /\ IF vstack = <<>>
       THEN /\ outcome' = Panicked(UnwrapNone, "evaluate_queue return")
            /\ UNCHANGED vstack
       ELSE /\ outcome' = Value(Last(vstack))
            /\ vstack' = Front(vstack)
    /\ UNCHANGED <<context, expression, pos, error, ret, items, tokens, ti,
                   queue, stack, qi, call, hist>>

(***************************************************************************)
(* Inputs                                                                  *)
(***************************************************************************)
MaxLen == 4
MaxExprLen == 3
MaxTokens == 4
MaxQueue == 4
MaxOperators == 3
MaxCalls == 3
MaxHostLen == 3

Alphabet == {" ", "1", ".", "a", "(", ")", ",", "+", EAcute}

Strings(A, n) == UNION {[1..k -> A] : k \in 0..n}

\* The expressions of the tests of lib.rs.
TestExpressions == {
    <<"4", " ", "+", " ", "9">>,
    <<"2", "5", " ", "-", " ", "3">>,
    <<"2", " ", "*", " ", "3">>,
    <<"1", "0", " ", "/", " ", "2">>,
    <<"2", "^", "1", "0">>,
    <<"2", " ", "+", " ", "3", " ", "*", " ", "4">>,
    <<"(", "2", " ", "+", " ", "3", ")", " ", "*", " ", "4">>,
    <<"(", "(", "2", ")", " ", "+", " ", "3", ")", " ", "*", " ", "4">>,
    <<"(", "5", " ", "+", " ", "3", ")", " ", "*", " ", "(", "4", " ", "-", " ", "1", ")">>,
    <<"2", "^", "(", "9", "+", "1", ")">>,
    <<"m", "a", "x", "(", "2", " ", "*", " ", "4", ",", " ", "3", " ", "+", " ", "5", ")">>}

\* Further expressions the documentation of the evaluator names.
DocumentedExpressions == {
    <<"2", "5", " ", "-", " ", "3", " ", "-", " ", "2">>,
    <<"2", "^", "3", "^", "2">>,
    <<"(", "1", " ", "+", " ", "2">>,
    <<"1", " ", "+", " ", "$">>,
    <<"3", ".", "4", ".", "5">>}

\* Parenthesis-free infix expressions: the k-th operand is the digit k, the
\* operators are any of the five, with or without blanks around them.
OperatorSymbols == {"+", "-", "*", "/", "^"}

Digit(k) == CASE k = 1 -> "1" [] k = 2 -> "2" [] k = 3 -> "3" [] k = 4 -> "4"
              [] k = 5 -> "5" [] OTHER -> "6"

RECURSIVE Infix(_, _, _)
Infix(ops, blanks, k) ==
    IF k > Len(ops) THEN <<Digit(k)>>
    ELSE <<Digit(k)>> \o (IF blanks THEN <<" ", ops[k], " ">> ELSE <<ops[k]>>)
         \o Infix(ops, blanks, k + 1)

InfixExpressions ==
    {Infix(ops, b, 1) : ops \in Strings(OperatorSymbols, MaxOperators), b \in BOOLEAN}

\* Calls f(e1, e2) of the two functions of the default Context.
Arguments ==
    {<<"1">>, <<"2", " ", "*", " ", "4">>, <<"3", " ", "+", " ", "5">>, <<"2", "^", "3">>}

CallExpressions ==
    {f \o <<"(">> \o e1 \o <<",", " ">> \o e2 \o <<")">> :
        f \in {<<"m", "a", "x">>, <<"m", "i", "n">>}, e1 \in Arguments, e2 \in Arguments}

Expressions ==
    Strings(Alphabet, MaxExprLen) \cup TestExpressions \cup DocumentedExpressions
        \cup InfixExpressions \cup CallExpressions

(***************************************************************************)
(* evaluate(expression, &Context::default())                               *)
(***************************************************************************)
Init ==
    /\ context = ContextDefault
    /\ expression \in Expressions
    /\ pos = 0 /\ error = FALSE /\ ret = None /\ items = <<>>
    /\ NoLocals
    /\ call = "evaluate" /\ pc = "try_collect"
    /\ outcome = Pending
    /\ hist = NoHistory

Next ==
    \/ TryCollect
    \/ ShuntingYardStep
    \/ ShuntingYardReturn
    \/ EvaluateQueueStep
    \/ EvaluateQueueReturn

Spec == Init /\ [][Next]_vars

(***************************************************************************)
(* tokenize(expression), iterated by the host                              *)
(***************************************************************************)
InitTokens ==
    /\ context = ContextNew
    /\ expression \in Strings(Alphabet, MaxLen)
    /\ pos = 0 /\ error = FALSE /\ ret = None /\ items = <<>>
    /\ NoLocals
    /\ call = "tokenize" /\ pc = "iterating"
    /\ outcome = Pending
    /\ hist = NoHistory

SpecTokens == InitTokens /\ [][Next_]_vars

(***************************************************************************)
(* shunting_yard(tokens, &context), called by the host                     *)
(***************************************************************************)
TokenAlphabet ==
    {Number(<<"1">>), Identifier(<<"a">>), Identifier(<<"m", "a", "x">>),
     Symbol(<<"+">>), Symbol(<<"^">>), Symbol(<<"$">>), Whitespace(<<" ">>),
     LeftParenthesis, RightParenthesis, ArgumentSeparator}

InitShuntingYard ==
    /\ context = ContextDefault
    /\ expression = <<>> /\ pos = 0 /\ error = FALSE /\ ret = None /\ items = <<>>
    /\ tokens \in Strings(TokenAlphabet, MaxTokens)
    /\ ti = 1 /\ queue = <<>> /\ stack = <<>>
    /\ qi = 1 /\ vstack = <<>>
    /\ call = "shunting_yard" /\ pc = "shunting_yard"
    /\ outcome = Pending
    /\ hist = NoHistory

NextShuntingYard == ShuntingYardStep \/ ShuntingYardReturn

SpecShuntingYard == InitShuntingYard /\ [][NextShuntingYard]_vars

(***************************************************************************)
(* evaluate_queue(&queue, &context), called by the host                    *)
(***************************************************************************)
QueueAlphabet ==
    {Number(<<"1">>), Number(<<"2">>), Number(<<".">>), Identifier(<<"x">>),
     Identifier(<<"a">>), Identifier(<<"m", "a", "x">>), Symbol(<<"-">>),
     Symbol(<<"^">>), Symbol(<<"$">>), LeftParenthesis}

InitEvaluateQueue ==
    /\ context = set_variable(ContextDefault, <<"x">>, F64(1))
    /\ expression = <<>> /\ pos = 0 /\ error = FALSE /\ ret = None /\ items = <<>>
    /\ tokens = <<>> /\ ti = 1 /\ stack = <<>>
    /\ queue \in Strings(QueueAlphabet, MaxQueue)
    /\ qi = 1 /\ vstack = <<>>
    /\ call = "evaluate_queue" /\ pc = "evaluate_queue"
    /\ outcome = Pending
    /\ hist = NoHistory

NextEvaluateQueue == EvaluateQueueStep \/ EvaluateQueueReturn

SpecEvaluateQueue == InitEvaluateQueue /\ [][NextEvaluateQueue]_vars

(***************************************************************************)
(* A host that evaluates one expression again and again, and changes the   *)
(* Context between two evaluations                                         *)
(***************************************************************************)
\* evaluate(expression, &context) called once more, after the last call ended.
HostEvaluate ==
    /\ call = "evaluate" /\ pc = "done" /\ hist.calls < MaxCalls
    /\ pos' = TokensFrom(expression).pos
    /\ error' = TokensFrom(expression).error
    /\ ret' = None /\ items' = <<>>
    /\ tokens' = <<>> /\ ti' = 1 /\ queue' = <<>> /\ stack' = <<>>
    /\ qi' = 1 /\ vstack' = <<>>
    /\ pc' = "try_collect"
    /\ outcome' = Pending
    /\ hist' = History(hist.calls + 1, outcome, hist.dirty, FALSE, hist.set)
    /\ UNCHANGED <<context, expression, call>>

\* context.set_variable(name, value), between two evaluations.
HostSetVariable ==
    /\ call = "evaluate" /\ pc = "done"
    /\ \E v \in {F64(1), F64(2)} : context' = set_variable(context, <<"x">>, v)
    /\ hist' = [hist EXCEPT !.dirty = TRUE, !.set = context']
    /\ UNCHANGED <<expression, pos, error, ret, items, tokens, ti, queue, stack,
                   qi, vstack, call, pc, outcome>>

\* context.add_operator(symbol, precedence, associativity), between two
\* evaluations.
HostAddOperator ==
    /\ call = "evaluate" /\ pc = "done"
    /\ context' = add_operator(context, <<"$">>, 2, "Left")
    /\ hist' = [hist EXCEPT !.dirty = TRUE, !.set = context']
    /\ UNCHANGED <<expression, pos, error, ret, items, tokens, ti, queue, stack,
                   qi, vstack, call, pc, outcome>>

HostAlphabet == {"1", "x", "+", "$", "("}

InitHost ==
    /\ context = ContextDefault
    /\ expression \in Strings(HostAlphabet, MaxHostLen) \cup TestExpressions
    /\ pos = 0 /\ error = FALSE /\ ret = None /\ items = <<>>
    /\ NoLocals
    /\ call = "evaluate" /\ pc = "try_collect"
    /\ outcome = Pending
    /\ hist = History(1, Pending, FALSE, FALSE, ContextDefault)

NextHost == Next \/ HostEvaluate \/ HostSetVariable \/ HostAddOperator

SpecHost == InitHost /\ [][NextHost]_vars

(***************************************************************************)
(* Properties of the tokenizer (SpecTokens)                                *)
(***************************************************************************)
\* C6: the items tokenize yields hold at most one error item, that item is
\* the last one, and once it is yielded every later call of next returns None,
\* whatever remains unconsumed.
C6_ErrorItemIsLast ==
    /\ \A i \in 1..Len(items) : items[i].status = "Err" => i = Len(items)
    /\ error =>
        /\ items # <<>> /\ Last(items).status = "Err"
        /\ ret \in {Last(items), None}

\* An error item was yielded after a token, blanks remain unconsumed, and a
\* later call of next returned None.
C6_Witness ==
    /\ call = "tokenize" /\ error /\ ret = None
    /\ Len(items) >= 2
    /\ is_whitespace(Last(expression))
    /\ pos < ByteLen(expression)

\* The character the next token starts with.
CurrentChar == expression[CharsBefore(expression, pos) + 1]

IsOtherChar(c) ==
    ~(is_whitespace(c) \/ is_digit(c) \/ is_letter(c) \/ c \in {"(", ")", ","})

\* C7: when the next token starts with a character that is not whitespace, a
\* digit, a lowercase letter, a parenthesis or a comma, next yields a Symbol
\* holding exactly that character and moves on to the character after it; it
\* does not fail on it.
C7_OtherCharIsSymbol ==
    [][(/\ call = "tokenize" /\ ~error
        /\ pos < ByteLen(expression)
        /\ IsCharBoundary(expression, pos)
        /\ IsOtherChar(CurrentChar))
       => (/\ ret' = Ok(Symbol(<<CurrentChar>>))
           /\ pos' = pos + Utf8Len(CurrentChar)
           /\ ~error')]_vars

(***************************************************************************)
(* Properties of shunting_yard (SpecShuntingYard)                          *)
(***************************************************************************)
NoLeftParenthesisOn(st) == \A i \in 1..Len(st) : st[i].kind # "LeftParenthesis"

\* C1: when shunting_yard handles a RightParenthesis and its stack holds no
\* LeftParenthesis (the empty stack included), the call fails with the
\* mismatched-parentheses panic instead of going on to return a queue.
C1_UnmatchedRightParenthesisPanics ==
    [][(/\ pc = "shunting_yard" /\ ti <= Len(tokens)
        /\ tokens[ti].kind = "RightParenthesis"
        /\ NoLeftParenthesisOn(stack))
       => (/\ pc' = "done"
           /\ outcome' = Panicked("Mismatched parentheses.", "shunting_yard"))]_vars

Count(s, t) == Cardinality({i \in 1..Len(s) : s[i] = t})

\* The number of "L" marks of s that no later "R" mark closes.
RECURSIVE Unclosed(_, _, _)
Unclosed(s, i, depth) ==
    IF i > Len(s) THEN depth
    ELSE IF s[i] = "L" THEN Unclosed(s, i + 1, depth + 1)
    ELSE IF s[i] = "R" /\ depth > 0 THEN Unclosed(s, i + 1, depth - 1)
    ELSE Unclosed(s, i + 1, depth)

UnclosedLeftTokens(toks) ==
    Unclosed([i \in 1..Len(toks) |->
                 CASE toks[i].kind = "LeftParenthesis" -> "L"
                   [] toks[i].kind = "RightParenthesis" -> "R"
                   [] OTHER -> "-"], 1, 0)

\* C10: when shunting_yard returns, its queue holds every Number, Identifier
\* and Symbol token of the input exactly as often as the input does, holds no
\* Whitespace, RightParenthesis or ArgumentSeparator, and holds a
\* LeftParenthesis only if the input has one that no later RightParenthesis
\* closes.
C10_QueueIsPermutation ==
    (call = "shunting_yard" /\ pc = "done" /\ outcome = Returned) =>
        /\ \A t \in {tokens[i] : i \in 1..Len(tokens)} \cup {queue[i] : i \in 1..Len(queue)} :
              t.kind \in {"Number", "Identifier", "Symbol"}
                  => Count(queue, t) = Count(tokens, t)
        /\ \A i \in 1..Len(queue) :
              queue[i].kind \notin {"Whitespace", "RightParenthesis", "ArgumentSeparator"}
        /\ (\E i \in 1..Len(queue) : queue[i].kind = "LeftParenthesis")
              => UnclosedLeftTokens(tokens) > 0

\* shunting_yard returned on a call of a function: the function's name left
\* the stack when the RightParenthesis closed the call.
C10_Witness ==
    /\ call = "shunting_yard" /\ pc = "done" /\ outcome = Returned
    /\ tokens = <<Identifier(<<"m", "a", "x">>), LeftParenthesis, Number(<<"1">>),
                  RightParenthesis>>
    /\ queue = <<Number(<<"1">>), Identifier(<<"m", "a", "x">>)>>

(***************************************************************************)
(* Properties of evaluate_queue (SpecEvaluateQueue)                        *)
(***************************************************************************)
\* C3: once the whole queue is consumed, evaluate_queue returns a number only
\* if exactly one value is on its stack, and that value; with no value or more
\* than one it fails instead.
C3_ExactlyOneValueRemains ==
    [][(pc = "evaluate_queue" /\ qi > Len(queue))
       => IF Len(vstack) = 1
          THEN outcome' = Value(vstack[1])
          ELSE outcome'.status = "panic"]_vars

(***************************************************************************)
(* Properties of evaluate with the default Context (Spec)                  *)
(***************************************************************************)
UnclosedLeftChars(e) ==
    Unclosed([i \in 1..Len(e) |->
                 CASE e[i] = "(" -> "L" [] e[i] = ")" -> "R" [] OTHER -> "-"], 1, 0)

\* C2: evaluate of an expression with a LeftParenthesis that no later
\* RightParenthesis closes is all-or-nothing: it fails (with the
\* mismatched-parentheses failure) and returns no number.
C2_UnclosedLeftParenthesisYieldsNoNumber ==
    (call = "evaluate" /\ pc = "done" /\ UnclosedLeftChars(expression) > 0) =>
        outcome.status # "value"

\* The conventional reading of a parenthesis-free infix expression, taken from
\* the text alone: the operator applied last is the one of lowest precedence,
\* the rightmost such for + - * / and the leftmost for ^.
RefPrecedence(c) == CASE c \in {"+", "-"} -> 2 [] c \in {"*", "/"} -> 3 [] c = "^" -> 4

RefRightToLeft(c) == c = "^"

SetMin(S) == CHOOSE x \in S : \A y \in S : x <= y

SetMax(S) == CHOOSE x \in S : \A y \in S : x >= y

NonBlank(e) == SelectSeq(e, LAMBDA c : ~is_whitespace(c))

\* A number literal: digits, with at most one decimal point between two digits.
IsLiteral(e) ==
    /\ e # <<>> /\ is_digit(e[1]) /\ is_digit(e[Len(e)])
    /\ \A i \in 1..Len(e) : is_digit(e[i]) \/ e[i] = "."
    /\ Cardinality({i \in 1..Len(e) : e[i] = "."}) <= 1

\* A number literal with blanks before and after it, none inside.
IsPaddedLiteral(e) ==
    /\ IsLiteral(NonBlank(e))
    /\ \A i, j, k \in 1..Len(e) :
          (i < j /\ j < k /\ ~is_whitespace(e[i]) /\ ~is_whitespace(e[k]))
              => ~is_whitespace(e[j])

OperatorPositions(e) == {i \in 1..Len(e) : e[i] \in OperatorSymbols}

RECURSIVE IsInfixExpression(_)
IsInfixExpression(e) ==
    IF OperatorPositions(e) = {} THEN IsPaddedLiteral(e)
    ELSE LET i == SetMin(OperatorPositions(e))
         IN  /\ IsPaddedLiteral(SubSeq(e, 1, i - 1))
             /\ IsInfixExpression(SubSeq(e, i + 1, Len(e)))

RECURSIVE Conventional(_)
Conventional(e) ==
    IF OperatorPositions(e) = {} THEN Lit(NonBlank(e))
    ELSE LET lowest == SetMin({RefPrecedence(e[i]) : i \in OperatorPositions(e)})
             at == {i \in OperatorPositions(e) : RefPrecedence(e[i]) = lowest}
             i == IF RefRightToLeft(e[SetMin(at)]) THEN SetMin(at) ELSE SetMax(at)
         IN  BinOp(e[i], Conventional(SubSeq(e, 1, i - 1)),
                   Conventional(SubSeq(e, i + 1, Len(e))))

\* C4: evaluate of a parenthesis-free infix expression over number literals
\* and + - * / ^ returns the value of its conventional grouping: higher
\* precedence binds tighter, + - * / group left to right, ^ groups right to
\* left, and the operand popped first is the right operand.
C4_ConventionalGrouping ==
    (call = "evaluate" /\ pc = "done" /\ IsInfixExpression(expression)) =>
        outcome = Value(Conventional(expression))

\* "25 - 3 - 2" is evaluated as (25 - 3) - 2.
C4_Witness ==
    /\ call = "evaluate" /\ pc = "done"
    /\ expression = <<"2", "5", " ", "-", " ", "3", " ", "-", " ", "2">>
    /\ outcome = Value(BinOp("-", BinOp("-", Lit(<<"2", "5">>), Lit(<<"3">>)),
                             Lit(<<"2">>)))

\* C5: evaluate of f(e1, e2), f being min or max of the default Context,
\* takes the comma as the argument separator and returns f's closure applied
\* to the list [value of e1, value of e2], in that order.
C5_CallAppliesFunction ==
    (call = "evaluate" /\ pc = "done") =>
        \A f \in DOMAIN ContextDefault.functions : \A e1, e2 \in Arguments :
            expression = f \o <<"(">> \o e1 \o <<",", " ">> \o e2 \o <<")">>
                => outcome = Value(Call(ContextDefault.functions[f].execute,
                                        <<Conventional(e1), Conventional(e2)>>))

\* Whether a number literal starts at e[i]: a digit that only decimal points
\* separate from the start of its run of digits and decimal points.
DigitOrDot(c) == is_digit(c) \/ c = "."

LiteralStartsAt(e, i) ==
    /\ is_digit(e[i])
    /\ \A j \in 1..(i - 1) : (\A k \in j..(i - 1) : DigitOrDot(e[k])) => e[j] = "."

RunEnd(e, i) ==
    CHOOSE n \in i..Len(e) :
        /\ \A k \in i..n : DigitOrDot(e[k])
        /\ n = Len(e) \/ ~DigitOrDot(e[n + 1])

\* The literal has a second decimal point, or ends in a decimal point.
HasMalformedLiteral(e) ==
    \E i \in 1..Len(e) :
        /\ LiteralStartsAt(e, i)
        /\ \/ Cardinality({k \in i..RunEnd(e, i) : e[k] = "."}) >= 2
           \/ e[RunEnd(e, i)] = "."

\* C9: evaluate of an expression with a malformed number literal fails with
\* the tokenizer's error, and shunting_yard never handles a token of it,
\* whatever stands to the left of the literal.
C9_LexicalErrorComesFirst ==
    (call = "evaluate" /\ HasMalformedLiteral(expression)) =>
        /\ pc \in {"try_collect", "done"}
        /\ tokens = <<>> /\ ti = 1 /\ queue = <<>> /\ stack = <<>>
        /\ pc = "done" =>
            /\ outcome.status = "panic"
            /\ outcome.site = "try_collect().unwrap()"
            /\ outcome.msg \in {"Malformed number", "Maldformed number"}

====
